---------------------------- MODULE Spec2Model ----------------------------
(***************************************************************************)
(* Model of the apply-URL resolvers, the answer generator, the fill-plan   *)
(* executor and the form extractor of the webbot package.                  *)
(*                                                                         *)
(* Python values are tagged records [t |-> <type>, v |-> <payload>]; text  *)
(* is a sequence of atoms (single characters where the code looks inside   *)
(* a string, whole words where it only compares strings).                  *)
(***************************************************************************)
EXTENDS Integers, Sequences, FiniteSets, TLC

(***************************************************************************)
(* Bounds of the model.                                                    *)
(***************************************************************************)
\* the interpreter's recursion limit, counted in nested activations of
\* _stage3_validate_and_navigate
MaxDepth == 2

(***************************************************************************)
(* Python values.                                                          *)
(***************************************************************************)
None == [t |-> "null"]
Garbage == [t |-> "garbage"]
PyStr(s) == [t |-> "str", v |-> s]
PyUrl(u) == [t |-> "url", v |-> u]
PyBool(b) == [t |-> "bool", v |-> b]
PyNum(n) == [t |-> "num", v |-> n]
PyArr(s) == [t |-> "arr", v |-> s]
PyObj(f) == [t |-> "obj", v |-> f]
EmptyObj == PyObj(<<>>)

Truthy(x) ==
  CASE x.t = "null" -> FALSE
    [] x.t = "bool" -> x.v
    [] x.t = "num" -> x.v # 0
    [] x.t = "str" -> x.v # <<>>
    [] x.t = "url" -> TRUE
    [] x.t = "arr" -> x.v # <<>>
    [] x.t = "obj" -> DOMAIN x.v # {}

IsDict(x) == x.t = "obj"

\* dict.get(key, default)
Get(d, key, default) == IF key \in DOMAIN d.v THEN d.v[key] ELSE default

Ok(v) == [ok |-> TRUE, val |-> v]
Err(e) == [ok |-> FALSE, exc |-> e]

\* x[key] for a string key: KeyError on a dict without the key, TypeError on
\* every value that is not a dict.
Subscript(x, key) ==
  IF x.t = "obj"
  THEN IF key \in DOMAIN x.v THEN Ok(x.v[key]) ELSE Err("KeyError")
  ELSE Err("TypeError")

(***************************************************************************)
(* LLM response contents: no content at all, or a text that is garbage or  *)
(* a JSON value, bare or wrapped in a markdown fence.                      *)
(***************************************************************************)
NoContent == [kind |-> "none"]
Text(body) == [kind |-> "text", fence |-> "no", body |-> body]
Fenced(body) == [kind |-> "text", fence |-> "json", body |-> body]

\* json.loads(content)
Loads(c) ==
  IF c.kind = "none" THEN Err("TypeError")
  ELSE IF c.fence # "no" \/ c.body.t = "garbage" THEN Err("JSONDecodeError")
  ELSE Ok(c.body)

\* strip, cut a leading ```json and a trailing ```, strip, json.loads
CleanLoads(c) ==
  IF c.kind = "none" THEN Err("AttributeError")
  ELSE IF c.body.t = "garbage" THEN Err("JSONDecodeError")
  ELSE Ok(c.body)

(***************************************************************************)
(* URLs and registrable domains.                                           *)
(***************************************************************************)
LowerMap ==
  [A |-> "a", E |-> "e", F |-> "f", L |-> "l", N |-> "n", O |-> "o", R |-> "r",
   S |-> "s", T |-> "t", U |-> "u", X |-> "x", Y |-> "y"]
LowerCh(c) == IF c \in DOMAIN LowerMap THEN LowerMap[c] ELSE c
LowerStr(s) == [i \in 1..Len(s) |-> LowerCh(s[i])]

Url(sub, dom, suf) == [sub |-> sub, dom |-> dom, suf |-> suf]

\* apply_finder.domain: ".".join of the non-empty parts, lower-cased
domain(u) ==
  LowerStr(IF u.dom = <<>> THEN u.suf
           ELSE IF u.suf = <<>> THEN u.dom
           ELSE u.dom \o <<".">> \o u.suf)

UrlX == Url(<<>>, <<"x">>, <<"c", "o">>)
UrlJobsX == Url(<<"j">>, <<"x">>, <<"c", "o">>)
UrlAX == Url(<<>>, <<"a", "x">>, <<"c", "o">>)
UrlY == Url(<<>>, <<"y">>, <<"c", "o">>)
UrlUpperX == Url(<<>>, <<"X">>, <<"c", "o">>)
Urls == {UrlX, UrlJobsX, UrlAX, UrlY, UrlUpperX}
PyUrls == {PyUrl(u) : u \in Urls}

DomX == <<"x", ".", "c", "o">>
DomAX == <<"a", "x", ".", "c", "o">>
DomY == <<"y", ".", "c", "o">>
DnaEntries == {DomX, DomAX}


(***************************************************************************)
(* State.                                                                  *)
(***************************************************************************)
VARIABLES
  \* agentic5_find_apply_url and smart_find_apply_url
  entry,           \* the resolver that was called
  pc,              \* position in the resolver being run
  dna,             \* do_not_apply_domains
  s1content,       \* the Stage 1 search response received
  official_domain, \* local of agentic5_find_apply_url
  trace_stage1,    \* trace["stages"].get("stage1")
  analysis,        \* Stage 2 link analysis dict
  stage2_result,
  careers_url,     \* local of agentic5_find_apply_url
  cur,             \* URL argument of the running careers/about/Stage 3 call
  depth,           \* Stage 3 recursion depth
  ret_url,         \* first element of the returned pair
  ret_trace,       \* second element of the returned pair
  exc,             \* exception propagated to the caller
  branch,          \* the return statement taken
  log              \* page navigations and LLM calls made, in order

resolverVars == <<entry, pc, dna, s1content, official_domain, trace_stage1, analysis,
                  stage2_result, careers_url, cur, depth, ret_url, ret_trace,
                  exc, branch, log>>

VARIABLES
  \* agentic5beta_find_apply_url
  beta_pc,
  beta_disallowed, \* disallowed_domains or []
  beta_items,      \* the thread's messages
  beta_data,       \* what _parse_json_from_messages returned
  beta_best,       \* first element of the returned pair
  beta_picks       \* trace["picks"]

betaVars == <<beta_pc, beta_disallowed, beta_items, beta_data, beta_best, beta_picks>>

VARIABLES
  \* generate_answers
  ans_pc,
  schema,          \* the FormSchema given to generate_answers
  ans_content,     \* resp.choices[0].message.content
  answers          \* local of generate_answers

answerVars == <<ans_pc, schema, ans_content, answers>>

VARIABLES
  \* execute_fill_plan and _fill_field
  ex_mode,         \* "plan": execute_fill_plan runs; "call": _fill_field is called
  ex_pc,
  ex_n,            \* number of fields of the schema
  ex_i,            \* index of the field of the running iteration
  ex_field,        \* the field of the running iteration and its live element
  ex_after,        \* the live element when the iteration ends
  ex_look,         \* what the lookups of the running iteration found
  ex_outcome,      \* how the running iteration ended
  ex_acts,         \* fill, select, click and check actions of the iteration
  ex_upload,       \* how the resume upload ended
  ex_attempts,     \* the attempts of _upload_resume, until its caller goes on
  ex_failed,       \* an iteration before the running one ended in an exception
  ex_raised        \* an exception left the function

execVars == <<ex_mode, ex_pc, ex_n, ex_i, ex_field, ex_after, ex_look, ex_outcome, ex_acts,
              ex_upload, ex_attempts,
                 ex_raised,
              ex_failed>>

VARIABLES
  \* extract_form_schema_from_page and extract_form_schema_from_snapshot_dir
  x_mode,          \* "live" or "snapshot"
  x_pc,
  x_doc,           \* the main document
  x_frames,        \* the frame documents the extraction has loaded
  x_fields,        \* the fields of the schema
  x_upload_signal,
  x_submit_signal,
  x_is_valid,
  x_conf,          \* Validity.confidence in hundredths
  x_raised,        \* an exception left the function
  x_probe          \* how the upload detection of lines 150-153 ended

extractVars == <<x_mode, x_pc, x_doc, x_frames, x_fields, x_upload_signal,
                 x_submit_signal, x_is_valid, x_conf, x_raised, x_probe>>

VARIABLES
  \* PlaywrightService
  active_runs,     \* the run ids that are keys of self.active_runs
  sv_open,         \* per run: which of its page and context are open
  sv_events,       \* "close" events emitted whose callback has not run yet
  sv_db,           \* per run: the status RunRepository holds
  sv_pc,           \* position of the stop_run call
  sv_run,          \* its run_id
  sv_result        \* its returned status, or the exception it raised

serviceVars == <<active_runs, sv_open, sv_events, sv_db, sv_pc, sv_run, sv_result>>

vars == <<resolverVars, betaVars, answerVars, execVars, extractVars, serviceVars>>

NotResolver == <<betaVars, answerVars, execVars, extractVars, serviceVars>>
NotBeta == <<resolverVars, answerVars, execVars, extractVars, serviceVars>>
NotAnswer == <<resolverVars, betaVars, execVars, extractVars, serviceVars>>
NotExec == <<resolverVars, betaVars, answerVars, extractVars, serviceVars>>
NotExtract == <<resolverVars, betaVars, answerVars, execVars, serviceVars>>
NotService == <<resolverVars, betaVars, answerVars, execVars, extractVars>>

Absent == [t |-> "absent"]
NoExc == "none"

Goto(u) == [op |-> "goto", arg |-> u]
Llm(name) == [op |-> "llm", arg |-> PyStr(<<name>>)]

(***************************************************************************)
(* LLM responses the resolvers can receive.                                *)
(***************************************************************************)
Stage1Values ==
  { PyObj([official_domain |-> PyStr(d), confidence |-> PyStr(<<"High">>)]) :
      d \in {DomX, DomY} }
  \cup { PyObj([confidence |-> PyStr(<<"High">>)]),
         PyObj([official_domain |-> None]),
         EmptyObj, PyArr(<<>>), PyArr(<<PyStr(DomX)>>), PyStr(DomX),
         PyNum(0), PyNum(5), None, PyBool(TRUE) }

Stage1Contents ==
  {NoContent, Text(Garbage), Fenced(PyObj([official_domain |-> PyStr(DomX)]))}
  \cup {Text(v) : v \in Stage1Values}

InitResolver ==
  /\ entry \in {"agentic5", "smart"}
  /\ pc = IF entry = "agentic5" THEN "stage1" ELSE "smart"
  /\ dna \in SUBSET DnaEntries
  /\ s1content = NoContent
  /\ official_domain = None
  /\ trace_stage1 = Absent
  /\ analysis = EmptyObj
  /\ stage2_result = None
  /\ careers_url = None
  /\ cur = None
  /\ depth = 0
  /\ ret_url = None
  /\ ret_trace = Absent
  /\ exc = NoExc
  /\ branch = "none"
  /\ log = <<>>

\* return url, trace
Return(url, tr, br) ==
  /\ pc' = "done"
  /\ ret_url' = url
  /\ ret_trace' = tr
  /\ branch' = br
  /\ exc' = exc

\* an exception leaves the resolver
Raise(e) ==
  /\ pc' = "raised"
  /\ exc' = e
  /\ UNCHANGED <<ret_url, ret_trace, branch>>

(***************************************************************************)
(* Stage 1: _stage1_find_official_website and lines 18-36 of               *)
(* agentic5_find_apply_url.                                                *)
(***************************************************************************)
\* mutant: a parse failure falls back to a guessed domain
Stage1FindGuess(c) ==
  LET p == Loads(c) IN
  IF p.ok THEN [raised |-> FALSE, exc |-> NoExc, result |-> p.val, stage1 |-> p.val]
  ELSE [raised |-> FALSE, exc |-> NoExc,
        result |-> PyObj([official_domain |-> PyStr(DomX)]), stage1 |-> Absent]

Stage1Find(c) ==
  LET p == Loads(c) IN
  IF p.ok THEN [raised |-> FALSE, exc |-> NoExc, result |-> p.val, stage1 |-> p.val]
  ELSE IF p.exc = "JSONDecodeError"
  THEN [raised |-> FALSE, exc |-> NoExc, result |-> None, stage1 |-> Absent]
  ELSE [raised |-> TRUE, exc |-> p.exc, result |-> None, stage1 |-> Absent]

Stage1 ==
  /\ pc = "stage1"
  /\ \E company \in {"text", "none"}, c \in Stage1Contents :
       IF company = "none"
       THEN \* resp.choices[0].message.content.strip() on None
            /\ log' = Append(log, Llm("company_extract"))
            /\ UNCHANGED <<s1content, trace_stage1, official_domain>>
            /\ Raise("AttributeError")
       ELSE LET r == Stage1Find(c) IN
            /\ log' = log \o <<Llm("company_extract"), Llm("official_website_search")>>
            /\ s1content' = c
            /\ trace_stage1' = r.stage1
            /\ IF r.raised
               THEN /\ Raise(r.exc)
                    /\ UNCHANGED official_domain
               ELSE IF ~Truthy(r.result)
               THEN /\ Return(None, r.stage1, "stage1_failed")
                    /\ UNCHANGED official_domain
               ELSE LET d == Subscript(r.result, "official_domain") IN
                    IF d.ok
                    THEN /\ official_domain' = d.val
                         /\ pc' = "stage2"
                         /\ UNCHANGED <<ret_url, ret_trace, exc, branch>>
                    ELSE /\ Raise(d.exc)
                         /\ UNCHANGED official_domain
  /\ UNCHANGED <<entry, dna, analysis, stage2_result, careers_url, cur, depth>>
  /\ UNCHANGED NotResolver

(***************************************************************************)
(* Stage 2: _stage2_find_careers_page, _analyze_careers_page and           *)
(* _analyze_about_page.                                                    *)
(***************************************************************************)
LinkObjs ==
  { PyObj([careers_links |-> PyArr(cl), about_links |-> PyArr(al),
           email_instructions |-> em]) :
      cl \in {<<>>, <<PyUrl(UrlX)>>, <<PyUrl(UrlY), PyUrl(UrlX)>>},
      al \in {<<>>, <<PyUrl(UrlAX)>>},
      em \in {PyStr(<<>>), PyStr(<<"mail">>)} }
  \cup { EmptyObj, PyObj([careers_links |-> PyArr(<<PyUrl(UrlJobsX)>>)]) }

LinkContents ==
  {NoContent, Text(Garbage), Text(PyArr(<<>>)),
   Fenced(PyObj([careers_links |-> PyArr(<<PyUrl(UrlX)>>)]))}
  \cup {Text(o) : o \in LinkObjs}

CareersContents ==
  {NoContent, Text(Garbage), Text(PyArr(<<>>)), Text(EmptyObj),
   Text(PyObj([apply_url |-> None])), Text(PyObj([apply_url |-> PyStr(<<>>)])),
   Fenced(PyObj([apply_url |-> PyUrl(UrlY)]))}
  \cup {Text(PyObj([apply_url |-> u])) : u \in PyUrls}

\* the email branch that ends _stage2_find_careers_page (lines 319-326)
EmailResult(a) ==
  LET em == Get(a, "email_instructions", None) IN
  IF Truthy(em) THEN PyObj([email_instructions |-> em]) ELSE None

\* lines 130-239: load the main page and collect links
Stage2Load ==
  /\ pc = "stage2"
  /\ \E gotoOk \in BOOLEAN :
       /\ log' = Append(log, Goto(official_domain))
       /\ IF ~gotoOk
          THEN /\ stage2_result' = None
               /\ pc' = "dispatch"
          ELSE /\ stage2_result' = stage2_result
               /\ pc' = "s2_links"
  /\ UNCHANGED <<entry, dna, s1content, official_domain, trace_stage1, analysis,
                 careers_url, cur, depth, ret_url, ret_trace, exc, branch>>
  /\ UNCHANGED NotResolver

\* lines 241-331 up to the calls of the page analysers
Stage2Links ==
  /\ pc = "s2_links"
  /\ \E c \in LinkContents :
       LET p == CleanLoads(c) IN
       /\ log' = Append(log, Llm("link_analysis"))
       /\ IF ~p.ok \/ ~IsDict(p.val)
          THEN \* JSONDecodeError (line 328) or any other exception (line 333)
               /\ stage2_result' = None
               /\ pc' = "dispatch"
               /\ UNCHANGED <<analysis, cur>>
          ELSE LET cl == Get(p.val, "careers_links", PyArr(<<>>))
                   al == Get(p.val, "about_links", PyArr(<<>>))
               IN /\ analysis' = p.val
                  /\ IF Truthy(cl)
                     THEN /\ cur' = cl.v[1]
                          /\ pc' = "s2_careers"
                          /\ UNCHANGED stage2_result
                     ELSE IF Truthy(al)
                     THEN /\ cur' = al.v[1]
                          /\ pc' = "s2_about"
                          /\ UNCHANGED stage2_result
                     ELSE /\ stage2_result' = EmailResult(p.val)
                          /\ pc' = "dispatch"
                          /\ UNCHANGED cur
  /\ UNCHANGED <<entry, dna, s1content, official_domain, trace_stage1, careers_url,
                 depth, ret_url, ret_trace, exc, branch>>
  /\ UNCHANGED NotResolver

\* _analyze_careers_page(careers_url, page, trace)
AnalyzeCareersPage(url, gotoOk, c) ==
  IF ~gotoOk THEN None
  ELSE LET p == CleanLoads(c) IN
       IF ~p.ok
       THEN IF p.exc = "JSONDecodeError" THEN PyObj([careers_url |-> url]) ELSE None
       ELSE IF ~IsDict(p.val) THEN None
       ELSE LET a == Get(p.val, "apply_url", None) IN
            IF Truthy(a) THEN PyObj([apply_url |-> a, careers_url |-> url])
            ELSE PyObj([careers_url |-> url])

\* the call of _analyze_careers_page and what follows it in Stage 2
AnalyzeCareers ==
  /\ pc = "s2_careers"
  /\ \E gotoOk \in BOOLEAN, c \in CareersContents :
       LET r == AnalyzeCareersPage(cur, gotoOk, c) IN
       /\ log' = IF gotoOk THEN log \o <<Goto(cur), Llm("careers_analysis")>>
                 ELSE Append(log, Goto(cur))
       /\ stage2_result' = IF Truthy(r) THEN r ELSE EmailResult(analysis)
       /\ pc' = "dispatch"
  /\ UNCHANGED <<entry, dna, s1content, official_domain, trace_stage1, analysis,
                 careers_url, cur, depth, ret_url, ret_trace, exc, branch>>
  /\ UNCHANGED NotResolver

\* _analyze_about_page(about_url, page, trace) up to its call of
\* _analyze_careers_page
AnalyzeAbout ==
  /\ pc = "s2_about"
  /\ \E gotoOk \in BOOLEAN, link \in PyUrls \cup {None} :
       /\ log' = Append(log, Goto(cur))
       /\ IF gotoOk /\ link # None
          THEN /\ cur' = link
               /\ pc' = "s2_careers"
               /\ UNCHANGED stage2_result
          ELSE /\ stage2_result' = EmailResult(analysis)
               /\ pc' = "dispatch"
               /\ UNCHANGED cur
  /\ UNCHANGED <<entry, dna, s1content, official_domain, trace_stage1, analysis,
                 careers_url, depth, ret_url, ret_trace, exc, branch>>
  /\ UNCHANGED NotResolver

\* lines 37-65 of agentic5_find_apply_url
Dispatch ==
  /\ pc = "dispatch"
  /\ IF ~Truthy(stage2_result)
     THEN /\ Return(None, trace_stage1, "stage2_failed")
          /\ UNCHANGED <<careers_url, cur, depth>>
     ELSE LET c == Get(stage2_result, "careers_url", None)
              a == Get(stage2_result, "apply_url", None)
              e == Get(stage2_result, "email_instructions", None)
          IN IF Truthy(a)
             THEN /\ Return(a, trace_stage1, "stage2_apply")
                  /\ UNCHANGED <<careers_url, cur, depth>>
             ELSE IF Truthy(c)
             THEN /\ careers_url' = c
                  /\ cur' = c
                  /\ depth' = 0
                  /\ pc' = "stage3"
                  /\ UNCHANGED <<ret_url, ret_trace, exc, branch>>
             ELSE IF Truthy(e)
             THEN /\ Return(None, trace_stage1, "stage2_email")
                  /\ UNCHANGED <<careers_url, cur, depth>>
             ELSE /\ Return(None, trace_stage1, "stage2_nothing")
                  /\ UNCHANGED <<careers_url, cur, depth>>
  /\ UNCHANGED <<entry, dna, s1content, official_domain, trace_stage1, analysis,
                 stage2_result, log>>
  /\ UNCHANGED NotResolver

(***************************************************************************)
(* Stage 3: _stage3_validate_and_navigate.                                 *)
(***************************************************************************)
PageTypes == {"job_posting", "job_listings", "overview_page", "landing"}

S3Objs ==
  { PyObj([page_type |-> PyStr(<<pt>>), apply_button_found |-> PyBool(b),
           matching_job_links |-> PyArr(ml)]) :
      pt \in PageTypes, b \in BOOLEAN, ml \in {<<>>, <<PyUrl(UrlJobsX)>>} }
  \cup { EmptyObj, PyObj([page_type |-> PyStr(<<"job_posting">>)]),
         PyObj([page_type |-> PyStr(<<"job_listings">>)]) }

S3Contents ==
  {NoContent, Text(Garbage), Text(PyArr(<<>>)),
   Fenced(PyObj([page_type |-> PyStr(<<"overview_page">>)]))}
  \cup {Text(o) : o \in S3Objs}

VerifyContents ==
  {NoContent, Text(Garbage), Text(PyArr(<<>>)), Text(EmptyObj),
   Fenced(PyObj([matches |-> PyBool(TRUE)]))}
  \cup { Text(PyObj([matches |-> PyBool(m), apply_button_found |-> PyBool(b)])) :
           m \in BOOLEAN, b \in BOOLEAN }

S3Return(val, br) == [kind |-> "return", val |-> val, br |-> br]
S3Recurse(url) == [kind |-> "recurse", val |-> url, br |-> "overview"]
S3Visit(url) == [kind |-> "visit", val |-> url, br |-> "listings"]

\* lines 516-676 and 802-831: one activation of _stage3_validate_and_navigate
\* up to its return, its recursive call, or its visit of the first matching
\* job link
Stage3Frame(gotoOk, c, nav, clickOk, after) ==
  IF ~gotoOk THEN S3Return(None, "s3_exception")
  ELSE LET p == CleanLoads(c) IN
       IF ~p.ok
       THEN IF p.exc = "JSONDecodeError" THEN S3Return(None, "s3_unparsable")
            ELSE S3Return(None, "s3_exception")
       ELSE IF ~IsDict(p.val) THEN S3Return(None, "s3_exception")
       ELSE LET pt == Get(p.val, "page_type", PyStr(<<"unknown">>)) IN
            IF pt = PyStr(<<"job_posting">>)
            THEN IF Truthy(Get(p.val, "apply_button_found", PyBool(FALSE)))
                 THEN IF clickOk THEN S3Return(after, "s3_posting_clicked")
                      ELSE S3Return(None, "s3_posting_click_failed")
                 ELSE S3Return(None, "s3_posting_nobutton")
            ELSE IF pt = PyStr(<<"job_listings">>)
            THEN LET ml == Get(p.val, "matching_job_links", PyArr(<<>>)) IN
                 IF Truthy(ml) THEN S3Visit(ml.v[1])
                 ELSE S3Return(None, "s3_no_links")
            ELSE IF pt = PyStr(<<"overview_page">>)
            THEN IF nav # None THEN S3Recurse(nav)
                 ELSE S3Return(None, "s3_overview_nolinks")
            ELSE S3Return(None, "s3_unknown")

\* lines 691-797: visit the job posting and verify it
Stage3Listing(job_url, jobGotoOk, vc, clickOk, after) ==
  LET vp == CleanLoads(vc) IN
  IF ~jobGotoOk THEN S3Return(None, "s3_exception")
  ELSE IF ~vp.ok
  THEN IF vp.exc = "JSONDecodeError"
       THEN S3Return(job_url, "s3_verify_unparsable")
       ELSE S3Return(None, "s3_exception")
  ELSE IF ~IsDict(vp.val) THEN S3Return(None, "s3_exception")
  ELSE LET m == Get(vp.val, "matches", PyBool(FALSE))
           b == Get(vp.val, "apply_button_found", PyBool(FALSE))
       IN IF Truthy(m) /\ Truthy(b)
          THEN IF clickOk THEN S3Return(after, "s3_listing_clicked")
               ELSE S3Return(job_url, "s3_listing_click_failed")
          ELSE IF Truthy(m) THEN S3Return(job_url, "s3_listing_match")
          ELSE S3Return(None, "s3_nomatch")

\* mutant: no careers URL fallback
Stage3DoneNoFallback(r) == Return(r.val, trace_stage1, r.br)

\* lines 56-59 of agentic5_find_apply_url
Stage3Done(r) ==
  Return(IF Truthy(r.val) THEN r.val ELSE careers_url, trace_stage1, r.br)

\* mutant: the recursive call takes no room on the interpreter's stack
SameDepth(d) == d

\* line 818: the recursive call is one more activation on the stack
Deeper(d) == d + 1

\* lines 818 and 829-831: with MaxDepth activations on the stack the
\* recursive call raises RecursionError (the interpreter's recursion limit);
\* the except clause of the activation turns it into None, and every
\* enclosing activation returns what its callee returned
RecursionError == S3Return(None, "s3_recursion_error")

Stage3 ==
  /\ pc = "stage3"
  /\ \E gotoOk \in BOOLEAN, c \in S3Contents, nav \in {None, PyUrl(UrlY)},
        clickOk \in BOOLEAN, after \in {PyUrl(UrlAX), PyUrl(UrlY)} :
       LET r == Stage3Frame(gotoOk, c, nav, clickOk, after) IN
       /\ log' = IF gotoOk THEN log \o <<Goto(cur), Llm("stage3_analysis")>>
                 ELSE Append(log, Goto(cur))
       /\ IF r.kind = "recurse" /\ depth < MaxDepth
          THEN /\ cur' = r.val
               /\ depth' = Deeper(depth)
               /\ UNCHANGED <<pc, ret_url, ret_trace, exc, branch>>
          ELSE IF r.kind = "recurse"
          THEN /\ Stage3Done(RecursionError)
               /\ UNCHANGED <<cur, depth>>
          ELSE IF r.kind = "visit"
          THEN /\ cur' = r.val
               /\ pc' = "s3_verify"
               /\ UNCHANGED <<depth, ret_url, ret_trace, exc, branch>>
          ELSE /\ Stage3Done(r)
               /\ UNCHANGED <<cur, depth>>
  /\ UNCHANGED <<entry, dna, s1content, official_domain, trace_stage1, analysis,
                 stage2_result, careers_url>>
  /\ UNCHANGED NotResolver

Stage3Verify ==
  /\ pc = "s3_verify"
  /\ \E jobGotoOk \in BOOLEAN, vc \in VerifyContents, clickOk \in BOOLEAN,
        after \in {PyUrl(UrlAX), PyUrl(UrlY)} :
       /\ log' = IF jobGotoOk THEN log \o <<Goto(cur), Llm("job_verification")>>
                 ELSE Append(log, Goto(cur))
       /\ Stage3Done(Stage3Listing(cur, jobGotoOk, vc, clickOk, after))
  /\ UNCHANGED <<entry, dna, s1content, official_domain, trace_stage1, analysis,
                 stage2_result, careers_url, cur, depth>>
  /\ UNCHANGED NotResolver

(***************************************************************************)
(* smart_find_apply_url: the single-shot variant.                          *)
(***************************************************************************)
SmartObjs ==
  { PyObj([apply_url |-> a, careers_url |-> cu, confidence |-> cf]) :
      a \in {None, PyUrl(UrlX), PyNum(5)},
      cu \in {None, PyUrl(UrlY)},
      cf \in {None, PyNum(1), PyStr(<<"0.9">>), PyStr(<<"High">>)} }
  \cup { EmptyObj, PyObj([official_domain |-> PyStr(DomX)]),
         PyObj([official_domain |-> PyNum(5)]) }

SmartContents ==
  {NoContent, Text(Garbage), Text(PyArr(<<>>)), Text(None), Text(PyStr(DomX)),
   Fenced(EmptyObj)}
  \cup {Text(o) : o \in SmartObjs}

\* pydantic validation of Optional[str] and Optional[float] fields
ValidOptStr(x) == x.t \in {"null", "str", "url"}
ValidOptFloat(x) ==
  \/ x.t \in {"null", "num", "bool"}
  \/ x.t = "str" /\ x.v = <<"0.9">>

\* AgentPick.model_validate(data)
ModelValidate(data) ==
  IF ~IsDict(data) THEN Err("ValidationError")
  ELSE IF /\ \A k \in {"official_domain", "careers_url", "apply_url", "rationale"} :
               ValidOptStr(Get(data, k, None))
          /\ ValidOptFloat(Get(data, "confidence", None))
       THEN Ok([apply_url |-> Get(data, "apply_url", None),
                careers_url |-> Get(data, "careers_url", None)])
       ELSE Err("ValidationError")

SmartFind ==
  /\ pc = "smart"
  /\ \E c \in SmartContents :
       LET raw == IF c.kind = "none" THEN Text(EmptyObj) ELSE c
           p == Loads(raw)
           data == IF p.ok THEN p.val ELSE EmptyObj
           pick == ModelValidate(data)
       IN /\ log' = Append(log, Llm("smart_find"))
          /\ s1content' = c
          /\ IF pick.ok
             THEN Return(IF Truthy(pick.val.apply_url) THEN pick.val.apply_url
                         ELSE pick.val.careers_url,
                         PyObj([picks |-> PyObj(pick.val)]), "smart")
             ELSE Raise(pick.exc)
  /\ UNCHANGED <<entry, dna, official_domain, trace_stage1, analysis, stage2_result,
                 careers_url, cur, depth>>
  /\ UNCHANGED NotResolver

(***************************************************************************)
(* The resolvers' specification.                                           *)
(***************************************************************************)
IdleBeta ==
  /\ beta_pc = "idle"
  /\ beta_disallowed = {}
  /\ beta_items = <<>>
  /\ beta_data = EmptyObj
  /\ beta_best = None
  /\ beta_picks = EmptyObj

IdleAnswer ==
  /\ ans_pc = "idle"
  /\ schema = <<>>
  /\ ans_content = NoContent
  /\ answers = EmptyObj

NoField ==
  [type |-> "none", css |-> FALSE, label |-> FALSE, placeholder |-> FALSE,
   name |-> FALSE, answer |-> Absent, value |-> <<>>, checked |-> FALSE]
NoLive == [value |-> <<>>, checked |-> FALSE]
NoLook ==
  [css |-> "missing", label |-> "missing", placeholder |-> "missing",
   role |-> "missing", text |-> "missing"]

IdleExec ==
  /\ ex_mode = "none"
  /\ ex_pc = "idle"
  /\ ex_n = 0
  /\ ex_i = 0
  /\ ex_field = NoField
  /\ ex_after = NoLive
  /\ ex_look = NoLook
  /\ ex_outcome = "none"
  /\ ex_acts = <<>>
  /\ ex_upload = "none"
  /\ ex_attempts = <<>>
  /\ ex_failed = FALSE
  /\ ex_raised = FALSE

EmptyDoc == [nodes |-> <<>>, upload_text |-> FALSE, submit_text |-> FALSE]

IdleExtract ==
  /\ x_mode = "none"
  /\ x_pc = "idle"
  /\ x_doc = EmptyDoc
  /\ x_frames = <<>>
  /\ x_fields = <<>>
  /\ x_upload_signal = FALSE
  /\ x_submit_signal = FALSE
  /\ x_is_valid = FALSE
  /\ x_conf = 0
  /\ x_raised = FALSE
  /\ x_probe = "none"

MaxRuns == 2
Runs == 1..MaxRuns

\* PlaywrightService.__init__: no run is active
IdleService ==
  /\ active_runs = {}
  /\ sv_open = [r \in Runs |-> {}]
  /\ sv_events = {}
  /\ sv_db = [r \in Runs |-> "none"]
  /\ sv_pc = "idle"
  /\ sv_run = 0
  /\ sv_result = "none"

Init == InitResolver /\ IdleBeta /\ IdleAnswer /\ IdleExec /\ IdleExtract /\ IdleService

Next ==
  \/ Stage1
  \/ Stage2Load
  \/ Stage2Links
  \/ AnalyzeCareers
  \/ AnalyzeAbout
  \/ Dispatch
  \/ Stage3
  \/ Stage3Verify
  \/ SmartFind

Spec == Init /\ [][Next]_vars

(***************************************************************************)
(* Properties of the resolvers.                                            *)
(***************************************************************************)
Stage1Calls == <<Llm("company_extract"), Llm("official_website_search")>>

\* C1: agentic5_find_apply_url never returns a URL whose registrable domain
\* is an entry of do_not_apply_domains.
CX_C1_NoDisallowedUrl ==
  (entry = "agentic5" /\ pc = "done" /\ ret_url.t = "url")
    => domain(ret_url.v) \notin dna

\* C3: a Stage 1 response that is not JSON makes the resolver return
\* (None, trace) with no navigation and no Stage 2 LLM call; a JSON object
\* with official_domain d starts Stage 2 with exactly d.
Thm_C3_Stage1Gate ==
  (entry = "agentic5" /\ s1content.kind = "text") =>
    /\ s1content.body = Garbage =>
         /\ pc = "done"
         /\ ret_url = None
         /\ ret_trace = trace_stage1
         /\ log = Stage1Calls
    /\ (s1content.fence = "no" /\ IsDict(s1content.body)
        /\ "official_domain" \in DOMAIN s1content.body.v) =>
         /\ official_domain = s1content.body.v["official_domain"]
         /\ pc # "raised"
         /\ branch # "stage1_failed"
         /\ pc = "stage2" \/ (Len(log) >= 3 /\ log[3] = Goto(official_domain))

W_C3_GarbageStage1 ==
  entry = "agentic5" /\ pc = "done" /\ s1content = Text(Garbage)

Stage12Failures == {"stage1_failed", "stage2_failed", "stage2_email", "stage2_nothing"}
Stage3ListedFailures ==
  {"s3_posting_nobutton", "s3_posting_click_failed", "s3_nomatch",
   "s3_overview_nolinks", "s3_unknown", "s3_exception"}
Stage3Failures ==
  Stage3ListedFailures \cup {"s3_unparsable", "s3_no_links", "s3_recursion_error"}

\* C9 as stated: on every failure branch, Stage 3 failures included, the
\* resolver returns None as the URL, together with the trace.
CX_C9_FailureReturnsNull ==
  (entry = "agentic5" /\ pc = "done"
   /\ branch \in Stage12Failures \cup Stage3ListedFailures)
    => (ret_url = None /\ ret_trace = trace_stage1)

\* C9 as amended: a Stage 1 or Stage 2 failure returns None; a Stage 3
\* failure returns the careers URL of Stage 2 as a fallback; every return
\* carries the trace, which holds the parsed Stage 1 answer.
Thm_C9_FailureReturns ==
  (entry = "agentic5" /\ pc = "done") =>
    /\ branch \in Stage12Failures => ret_url = None
    /\ branch \in Stage3Failures => (ret_url = careers_url /\ Truthy(careers_url))
    /\ ret_trace = trace_stage1
    /\ (s1content.kind = "text" /\ s1content.fence = "no"
        /\ s1content.body # Garbage) => trace_stage1 = s1content.body

W_C9_Stage3Failed ==
  /\ entry = "agentic5" /\ pc = "done" /\ branch = "s3_nomatch"
  /\ ret_url = careers_url /\ ret_url # None

\* C10: whatever text the LLM answers, neither resolver raises.
CX_C10_NeverRaises ==
  ~(pc = "raised" /\ s1content.kind = "text")

(***************************************************************************)
(* agentic5beta_find_apply_url: the Assistants variant.                    *)
(***************************************************************************)
MaxMsgs == 2

\* bad in d
IsSubstr(bad, d) ==
  \E i \in 0..(Len(d) - Len(bad)) : SubSeq(d, i + 1, i + Len(bad)) = bad

\* d.endswith(bad)
EndsWith(d, bad) ==
  /\ Len(bad) <= Len(d)
  /\ SubSeq(d, Len(d) - Len(bad) + 1, Len(d)) = bad

\* mutant: only an exact match is a violation
ViolatesDnaExact(url, disallowed) ==
  IF ~Truthy(url) \/ url.t # "url" THEN FALSE
  ELSE domain(url.v) \in disallowed

\* _violates_dna(url, disallowed); domain() of a value that is no string
\* raises, which the function answers with False
ViolatesDna(url, disallowed) ==
  IF ~Truthy(url) THEN FALSE
  ELSE IF url.t # "url" THEN FALSE
  ELSE LET d == domain(url.v) IN
       \E bad \in disallowed : EndsWith(d, bad) \/ IsSubstr(bad, d)

BetaDisallowed == {DomX, DomAX, DomY}

BetaObjs ==
  { PyObj([apply_url |-> a, careers_url |-> c]) :
      a \in {None, PyStr(<<>>), PyNum(5)} \cup PyUrls,
      c \in {None, PyUrl(UrlX), PyUrl(UrlAX), PyUrl(UrlY)} }
  \cup { EmptyObj, PyObj([careers_url |-> PyUrl(UrlJobsX)]) }

\* a message: its role and the text value of its content part
BetaMsgs ==
  { [role |-> "user", c |-> Text(PyObj([apply_url |-> PyUrl(UrlX)]))],
    [role |-> "assistant", c |-> NoContent],
    [role |-> "assistant", c |-> Text(Garbage)],
    [role |-> "assistant", c |-> Fenced(EmptyObj)],
    [role |-> "assistant", c |-> Text(PyArr(<<>>))] }
  \cup { [role |-> "assistant", c |-> Text(o)] : o \in BetaObjs }

RECURSIVE ParseJsonFromMessages(_)
\* _parse_json_from_messages(items)
ParseJsonFromMessages(items) ==
  IF items = <<>> THEN EmptyObj
  ELSE LET m == Head(items)
           p == Loads(m.c)
       IN IF m.role = "assistant" /\ m.c.kind = "text" /\ p.ok THEN p.val
          ELSE ParseJsonFromMessages(Tail(items))

InitBeta ==
  /\ beta_pc = "start"
  /\ beta_disallowed \in SUBSET BetaDisallowed
  /\ beta_items = <<>>
  /\ beta_data = EmptyObj
  /\ beta_best = None
  /\ beta_picks = EmptyObj

\* lines 67-102: run the assistant, collect and parse its messages
BetaCollect ==
  /\ beta_pc = "start"
  /\ \E n \in 0..MaxMsgs : \E items \in [1..n -> BetaMsgs] :
       /\ beta_items' = items
       /\ beta_data' = ParseJsonFromMessages(items)
  /\ beta_pc' = "parsed"
  /\ UNCHANGED <<beta_disallowed, beta_best, beta_picks>>
  /\ UNCHANGED NotBeta

\* lines 104-117: pick the best URL and apply the disallowed-domain check
BetaChoose ==
  /\ beta_pc = "parsed"
  /\ IF ~IsDict(beta_data)
     THEN \* data.get on a value that is no dict
          /\ beta_pc' = "raised"
          /\ UNCHANGED <<beta_best, beta_picks>>
     ELSE LET a == Get(beta_data, "apply_url", None)
              c == Get(beta_data, "careers_url", None)
              best == IF Truthy(a) THEN a ELSE c
          IN /\ beta_picks' = PyObj([apply_url |-> a, careers_url |-> c])
             /\ beta_best' = IF ViolatesDna(best, beta_disallowed) THEN None ELSE best
             /\ beta_pc' = "done"
  /\ UNCHANGED <<beta_disallowed, beta_items, beta_data>>
  /\ UNCHANGED NotBeta

IdleResolver ==
  /\ entry = "none"
  /\ pc = "idle"
  /\ dna = {}
  /\ s1content = NoContent
  /\ official_domain = None
  /\ trace_stage1 = Absent
  /\ analysis = EmptyObj
  /\ stage2_result = None
  /\ careers_url = None
  /\ cur = None
  /\ depth = 0
  /\ ret_url = None
  /\ ret_trace = Absent
  /\ exc = NoExc
  /\ branch = "none"
  /\ log = <<>>

NextBeta == BetaCollect \/ BetaChoose

BetaInit ==
  InitBeta /\ IdleResolver /\ IdleAnswer /\ IdleExec /\ IdleExtract /\ IdleService

SpecBeta == BetaInit /\ [][NextBeta]_vars

\* the URL the beta resolver chose before the disallowed-domain check
BetaChosen ==
  IF Truthy(beta_picks.v.apply_url) THEN beta_picks.v.apply_url
  ELSE beta_picks.v.careers_url

\* C2 as stated: the result is discarded whenever the chosen URL's domain
\* equals a disallowed entry or is a substring of one.
CX_C2_DiscardIfContainedInEntry ==
  (beta_pc = "done" /\ BetaChosen.t = "url"
   /\ \E bad \in beta_disallowed :
        domain(BetaChosen.v) = bad \/ IsSubstr(domain(BetaChosen.v), bad))
    => beta_best = None

\* C2 as amended: the result is discarded whenever the chosen URL's domain
\* equals a disallowed entry or contains one as a substring; a chosen URL
\* whose domain contains no entry is returned as it is.
Thm_C2_DiscardIfContainsEntry ==
  (beta_pc = "done" /\ BetaChosen.t = "url") =>
    IF \E bad \in beta_disallowed :
         domain(BetaChosen.v) = bad \/ IsSubstr(bad, domain(BetaChosen.v))
    THEN beta_best = None
    ELSE beta_best = BetaChosen

W_C2_Discarded ==
  /\ beta_pc = "done" /\ BetaChosen = PyUrl(UrlAX) /\ beta_disallowed = {DomX}
  /\ beta_best = None

(***************************************************************************)
(* generate_answers: the answer generator.                                 *)
(***************************************************************************)
MaxAnsFields == 2

Whitespace == {" ", "\n", "\t"}

\* str.strip()
Strip(s) ==
  LET keep == {i \in 1..Len(s) : s[i] \notin Whitespace} IN
  IF keep = {} THEN <<>>
  ELSE LET first == CHOOSE i \in keep : \A j \in keep : i <= j
           last == CHOOSE i \in keep : \A j \in keep : j <= i
       IN SubSeq(s, first, last)

\* str(val)
StrOf(val) ==
  CASE val.t = "str" -> val.v
    [] val.t = "bool" -> IF val.v THEN <<"T", "r", "u", "e">>
                         ELSE <<"F", "a", "l", "s", "e">>
    [] val.t = "num" -> <<ToString(val.v)>>
    [] val.t = "null" -> <<"N", "o", "n", "e">>

TruthyWords == {<<"1">>, <<"t", "r", "u", "e">>, <<"y", "e", "s">>, <<"o", "n">>}
StrTrue == <<"t", "r", "u", "e">>
StrFalse == <<"f", "a", "l", "s", "e">>

\* mutant: the truthy words are compared case-sensitively
StoredAnswerCaseSensitive(type, val) ==
  IF type \in {"checkbox", "radio"}
  THEN PyStr(IF Strip(StrOf(val)) \in TruthyWords THEN StrTrue ELSE StrFalse)
  ELSE PyStr(StrOf(val))

\* mutant: every stored answer is lower-cased
StoredAnswerLowered(type, val) ==
  IF type \in {"checkbox", "radio"}
  THEN PyStr(IF LowerStr(Strip(StrOf(val))) \in TruthyWords THEN StrTrue ELSE StrFalse)
  ELSE PyStr(LowerStr(StrOf(val)))

\* lines 141-147: the value stored in f.meta["answer"]
StoredAnswer(type, val) ==
  IF type \in {"checkbox", "radio"}
  THEN PyStr(IF LowerStr(Strip(StrOf(val))) \in TruthyWords THEN StrTrue ELSE StrFalse)
  ELSE PyStr(StrOf(val))

AnswerTypes == {"checkbox", "radio", "text", "select"}
FieldIds == <<"field_0", "field_1", "field_2">>
OptionsYesNo == <<<<"y", "e", "s">>, <<"n", "o">>>>

AnsField(i, type) ==
  [field_id |-> FieldIds[i], type |-> type,
   options |-> IF type = "select" THEN OptionsYesNo ELSE <<>>,
   answer |-> Absent]

AnswerStrings ==
  { <<"t", "r", "u", "e">>, <<"T", "R", "U", "E">>, <<"Y", "e", "s">>, <<"1">>,
    <<"o", "n">>, <<>>, <<"n", "o">>, <<"f", "a", "l", "s", "e">>,
    <<" ", "y", "e", "s">>, <<"O", "n", "\n">>, <<"Y", "E", "S">> }

AnswerValues ==
  {PyStr(x) : x \in AnswerStrings}
  \cup {PyBool(TRUE), PyBool(FALSE), PyNum(1), PyNum(0), None}

\* the answers objects the LLM can return for a schema of n fields; the
\* id ghost names no field of the schema
AnswerMaps(n) ==
  LET ids == {FieldIds[i] : i \in 1..n}
      known == UNION { [d -> AnswerValues] : d \in SUBSET ids }
  IN known \cup {m @@ [ghost |-> PyStr(StrTrue)] : m \in known}

AnswerContents(n) ==
  {NoContent, Text(Garbage), Text(PyArr(<<>>)), Text(EmptyObj),
   Text(PyObj([answers |-> PyArr(<<>>)])),
   Fenced(PyObj([answers |-> PyObj([field_0 |-> PyStr(StrTrue)])]))}
  \cup {Text(PyObj([answers |-> PyObj(m)])) : m \in AnswerMaps(n)}

InitAnswer ==
  /\ ans_pc = "start"
  /\ \E n \in 1..MaxAnsFields : \E types \in [1..n -> AnswerTypes] :
       schema = [url |-> PyUrl(UrlX), ats |-> None,
                 fields |-> [i \in 1..n |-> AnsField(i, types[i])],
                 validity |-> [is_valid |-> TRUE, confidence |-> 80,
                               meta |-> [llm_answered_fields |-> Absent]]]
  /\ ans_content = NoContent
  /\ answers = EmptyObj

\* mutant: the fence is stripped before json.loads
ParseAnswersStripping(c) ==
  LET raw == IF c.kind = "none" THEN Text(EmptyObj) ELSE c
      p == CleanLoads(raw)
      data == IF p.ok THEN p.val ELSE EmptyObj
  IN IF IsDict(data) /\ IsDict(Get(data, "answers", None))
     THEN Get(data, "answers", None)
     ELSE EmptyObj

\* lines 119-134: the answers map read from the response
ParseAnswers(c) ==
  LET raw == IF c.kind = "none" THEN Text(EmptyObj) ELSE c
      p == Loads(raw)
      data == IF p.ok THEN p.val ELSE EmptyObj
  IN IF IsDict(data) /\ IsDict(Get(data, "answers", None))
     THEN Get(data, "answers", None)
     ELSE EmptyObj

\* generate_answers(schema, ...)
GenerateAnswers ==
  /\ ans_pc = "start"
  /\ \E c \in AnswerContents(Len(schema.fields)) :
       LET a == ParseAnswers(c)
           hit == {i \in 1..Len(schema.fields) :
                     schema.fields[i].field_id \in DOMAIN a.v}
       IN /\ ans_content' = c
          /\ answers' = a
          /\ schema' =
               [schema EXCEPT
                  !.fields = [i \in 1..Len(schema.fields) |->
                     IF i \in hit
                     THEN [schema.fields[i] EXCEPT
                             !.answer = StoredAnswer(schema.fields[i].type,
                                                     a.v[schema.fields[i].field_id])]
                     ELSE schema.fields[i]],
                  !.validity.meta.llm_answered_fields = PyNum(Cardinality(hit))]
  /\ ans_pc' = "done"
  /\ UNCHANGED NotAnswer

NextAnswer == GenerateAnswers

AnswerInit ==
  InitAnswer /\ IdleResolver /\ IdleBeta /\ IdleExec /\ IdleExtract /\ IdleService

SpecAnswer == AnswerInit /\ [][NextAnswer]_vars

\* the fields of the schema whose id the LLM answered
Answered == {i \in 1..Len(schema.fields) : schema.fields[i].field_id \in DOMAIN answers.v}

\* C4 as stated: a checkbox or radio answer is "true" exactly for the string
\* values that equal 1, true, yes or on case-insensitively, "false" for
\* every other string value.
CX_C4_TruthyCaseInsensitive ==
  ans_pc = "done" =>
    \A i \in Answered :
      LET f == schema.fields[i]
          val == answers.v[f.field_id]
      IN (f.type \in {"checkbox", "radio"} /\ val.t = "str") =>
           f.answer = PyStr(IF LowerStr(val.v) \in TruthyWords THEN StrTrue ELSE StrFalse)

\* C4 as amended: a checkbox or radio answer is "true" exactly for the
\* string values that, with surrounding whitespace removed, equal 1, true,
\* yes or on case-insensitively, and "false" for every other string value.
Thm_C4_TruthyTrimmedCaseInsensitive ==
  ans_pc = "done" =>
    \A i \in Answered :
      LET f == schema.fields[i]
          val == answers.v[f.field_id]
      IN (f.type \in {"checkbox", "radio"} /\ val.t = "str") =>
           f.answer = PyStr(IF LowerStr(Strip(val.v)) \in TruthyWords
                            THEN StrTrue ELSE StrFalse)

\* a checkbox answered " yes" holds "true" and a radio answered "TRUE" too
W_C4_PaddedYes ==
  /\ ans_pc = "done"
  /\ \E i \in Answered :
       /\ schema.fields[i].type = "checkbox"
       /\ answers.v[schema.fields[i].field_id] = PyStr(<<" ", "y", "e", "s">>)
       /\ schema.fields[i].answer = PyStr(StrTrue)
  /\ \E i \in Answered :
       /\ schema.fields[i].type = "radio"
       /\ answers.v[schema.fields[i].field_id] = PyStr(<<"T", "R", "U", "E">>)
       /\ schema.fields[i].answer = PyStr(StrTrue)

\* C8: every stored answer is a string: "true" or "false" for checkbox and
\* radio, and for every other type the stringified LLM value verbatim, with
\* no case normalization and no matching against the options.
Thm_C8_AnswerIsString ==
  ans_pc = "done" =>
    \A i \in 1..Len(schema.fields) :
      LET f == schema.fields[i] IN
      f.answer # Absent =>
        /\ i \in Answered
        /\ f.answer.t = "str"
        /\ f.type \in {"checkbox", "radio"} => f.answer.v \in {StrTrue, StrFalse}
        /\ f.type \notin {"checkbox", "radio"} =>
             LET val == answers.v[f.field_id] IN
             /\ f.answer.v = StrOf(val)
             /\ val.t = "str" => f.answer = val

W_C8_SelectVerbatim ==
  /\ ans_pc = "done"
  /\ \E i \in Answered :
       /\ schema.fields[i].type = "select"
       /\ schema.fields[i].options = OptionsYesNo
       /\ schema.fields[i].answer = PyStr(<<"Y", "E", "S">>)

(***************************************************************************)
(* execute_fill_plan and _fill_field: the fill-plan executor.              *)
(*                                                                         *)
(* The schema is read one field per iteration; an iteration's field, the   *)
(* state of its live element and what the page answers to the lookups are  *)
(* drawn when the iteration starts.                                        *)
(***************************************************************************)
MaxExecFields == 2

TextLike == {"text", "email", "tel", "number", "date", "textarea"}
ExecTypes == {"text", "textarea", "select", "checkbox", "radio", "file", "password"}

StrNew == <<"n", "e", "w">>
StrOld == <<"o", "l", "d">>

ExecAnswers(type) ==
  IF type \in {"checkbox", "radio"}
  THEN {Absent, PyStr(StrTrue), PyStr(StrFalse)}
  ELSE {Absent, PyStr(<<>>), PyStr(StrNew)}

\* a field of the schema with the state of its live element
ExecFields ==
  { [type |-> t, css |-> c, label |-> l, placeholder |-> p, name |-> n,
     answer |-> a, value |-> v, checked |-> k] :
      t \in ExecTypes, c \in BOOLEAN, l \in BOOLEAN, p \in BOOLEAN, n \in BOOLEAN,
      a \in AnswerValues \cup {Absent, PyStr(StrNew)},
      v \in {<<>>, <<" ">>, StrOld}, k \in BOOLEAN }

FieldsOfSchema ==
  {f \in ExecFields :
     /\ f.answer \in ExecAnswers(f.type)
     /\ f.name => f.type = "checkbox"
     /\ f.type \in {"checkbox", "radio"} => f.value = <<>>
     /\ f.type \notin {"checkbox", "radio"} => ~f.checked}

\* what a lookup finds: no such locator on the field, zero elements, an
\* exception, an element on which the action works, one on which it raises
Found(present) ==
  IF present THEN {"zero", "raise", "hit", "hit_fail"} ELSE {"missing"}

\* line 164: the checkbox chain looks the control up by label or else by name
LabelTxt(f) == f.label \/ f.name

Envs(f) ==
  [css : Found(f.css),
   label : Found(f.label \/ (f.type = "checkbox" /\ f.name)),
   placeholder : Found(f.placeholder),
   role : Found(f.type = "checkbox" /\ LabelTxt(f)),
   text : Found(f.type = "checkbox" /\ LabelTxt(f)),
   is_checked : IF f.type \in {"checkbox", "radio"} THEN {"ok", "raise"} ELSE {"ok"},
   check : IF f.type = "checkbox" THEN BOOLEAN ELSE {TRUE},
   click2 : IF f.type = "select" THEN BOOLEAN ELSE {TRUE},
   input_value : IF f.type \in TextLike THEN {"ok", "raise"} ELSE {"ok"}]

IsHit(st) == st \in {"hit", "hit_fail"}
Act(op, via, ok) == [op |-> op, via |-> via, ok |-> ok]

\* lines 95-119: no CSS selector; one of the label and placeholder fallbacks
NoSelTry(f, st, via) ==
  IF IsHit(st) /\ f.type \in TextLike THEN <<Act("fill", via, st = "hit")>> ELSE <<>>

NoSelPath(f, env) ==
  LET byLabel == IF f.label THEN NoSelTry(f, env.label, "label") ELSE <<>> IN
  IF byLabel # <<>> /\ byLabel[1].ok THEN byLabel
  ELSE byLabel \o NoSelTry(f, env.placeholder, "placeholder")

\* lines 127-144: the locator the selector path ends with
FoundVia(f, env) ==
  IF IsHit(env.css) THEN "css"
  ELSE IF f.label /\ IsHit(env.label) THEN "label"
  ELSE IF IsHit(env.placeholder) THEN "placeholder"
  ELSE "none"

\* lines 166-200: one click strategy of the checkbox chain
ClickTry(st, via) ==
  IF IsHit(st) THEN <<Act("click", via, st = "hit")>> ELSE <<>>

Clicked(acts) == acts # <<>> /\ acts[Len(acts)].ok

\* lines 160-207: the checkbox chain
CheckboxPath(f, value, env, via) ==
  IF LowerStr(value) \notin TruthyWords THEN <<>>
  ELSE LET a1 == ClickTry(env[via], via)
           a2 == IF LabelTxt(f) THEN a1 \o ClickTry(env.role, "role") ELSE a1
           a3 == IF LabelTxt(f) /\ ~Clicked(a2)
                 THEN a2 \o ClickTry(env.label, "label") ELSE a2
           a4 == IF LabelTxt(f) /\ ~Clicked(a3)
                 THEN a3 \o ClickTry(env.text, "text") ELSE a3
       IN IF Clicked(a1) THEN a1
          ELSE IF Clicked(a4) THEN a4
          ELSE IF env.is_checked = "ok" /\ ~f.checked
          THEN Append(a4, Act("check", via, env.check))
          ELSE a4

\* lines 145-212: the action by field type on the located element
TypedPath(f, value, env, via) ==
  LET ok == env[via] = "hit" IN
  IF f.type \in TextLike THEN <<Act("fill", via, ok)>>
  ELSE IF f.type = "select"
  THEN IF ok THEN <<Act("select", via, TRUE)>>
       ELSE <<Act("select", via, FALSE), Act("click", via, env.click2)>>
  ELSE IF f.type = "checkbox" THEN CheckboxPath(f, value, env, via)
  ELSE IF f.type = "radio" THEN <<Act("click", via, ok)>>
  ELSE <<Act("fill", via, ok)>>

\* mutant: the selector path acts on the CSS locator without counting
FillFieldNoCount(f, value, env) ==
  IF ~f.css THEN NoSelPath(f, env)
  ELSE TypedPath(f, value, env, "css")

\* _fill_field(page, field, value, opts): the actions it attempts, in order;
\* every exception is caught inside it
FillField(f, value, env) ==
  IF ~f.css THEN NoSelPath(f, env)
  ELSE IF env.css = "raise" THEN <<>>
  ELSE IF FoundVia(f, env) = "none" THEN <<>>
  ELSE TypedPath(f, value, env, FoundVia(f, env))

\* what the lookups by the field's selector, label and placeholder found
Look(f, env) ==
  [css |-> env.css, label |-> IF f.label THEN env.label ELSE "missing",
   placeholder |-> env.placeholder, role |-> env.role, text |-> env.text]

InitExec ==
  /\ ex_mode \in {"plan", "call"}
  /\ ex_pc = IF ex_mode = "plan" THEN "upload" ELSE "fetch"
  /\ ex_n \in IF ex_mode = "plan" THEN 0..MaxExecFields ELSE {1}
  /\ ex_i = 0
  /\ ex_field = NoField
  /\ ex_after = NoLive
  /\ ex_look = NoLook
  /\ ex_outcome = "none"
  /\ ex_acts = <<>>
  /\ ex_upload = "none"
  /\ ex_attempts = <<>>
  /\ ex_failed = FALSE
  /\ ex_raised = FALSE

\* lines 218-225: the resume upload, every failure of which is swallowed
UploadSelectors == 4

\* what clicking the k-th upload control leads to: no such control (or the
\* lookup raises), a click that raises, no file input after the click, a
\* set_input_files that raises, one that works
ButtonOutcomes == {"none", "click_fails", "no_input", "set_fails", "set_ok"}

UploadEnvs ==
  [count : {"raise", "zero", "some"}, visible : BOOLEAN, set_visible : BOOLEAN,
   set_first : BOOLEAN, buttons : [1..UploadSelectors -> ButtonOutcomes]]

Attempt(op, ok) == [op |-> op, ok |-> ok]

\* lines 67-89: the upload controls from the k-th on
RECURSIVE UploadByButtons(_, _, _)
UploadByButtons(env, k, tried) ==
  IF k > UploadSelectors THEN [log |-> tried, result |-> "failed"]
  ELSE LET b == env.buttons[k] IN
       IF b = "none" THEN UploadByButtons(env, k + 1, tried)
       ELSE IF b = "click_fails"
       THEN UploadByButtons(env, k + 1, Append(tried, Attempt("click_upload", FALSE)))
       ELSE IF b = "no_input"
       THEN UploadByButtons(env, k + 1, Append(tried, Attempt("click_upload", TRUE)))
       ELSE IF b = "set_fails"
       THEN UploadByButtons(env, k + 1,
              tried \o <<Attempt("click_upload", TRUE), Attempt("set_after_click", FALSE)>>)
       ELSE [log |-> tried \o <<Attempt("click_upload", TRUE),
                              Attempt("set_after_click", TRUE)>>,
             result |-> "button"]

\* _upload_resume(page, schema, resume_pdf, opts) on a page with at most one
\* file input: the attempts in order and how the upload ended
UploadResume(env) ==
  IF env.count # "some" THEN UploadByButtons(env, 1, <<>>)
  ELSE LET v == IF env.visible THEN <<Attempt("set_visible", env.set_visible)>>
                ELSE <<>>
       IN IF env.visible /\ env.set_visible THEN [log |-> v, result |-> "visible"]
          ELSE IF env.set_first
          THEN [log |-> Append(v, Attempt("set_first", TRUE)), result |-> "first"]
          ELSE UploadByButtons(env, 1, Append(v, Attempt("set_first", FALSE)))

\* lines 221-223: the resume is picked and, when there is one, uploaded
Upload ==
  /\ ex_pc = "upload"
  /\ \/ /\ ex_upload' = "no_resume"
        /\ ex_attempts' = <<>>
        /\ ex_pc' = "fetch"
     \/ \E env \in UploadEnvs :
          /\ ex_upload' = UploadResume(env).result
          /\ ex_attempts' = UploadResume(env).log
          /\ ex_pc' = "uploaded"
  /\ UNCHANGED <<ex_failed,
                 ex_mode, ex_n, ex_i, ex_field, ex_after, ex_look, ex_outcome, ex_acts,
                 ex_raised>>
  /\ UNCHANGED NotExec

\* mutant: a failed upload ends the run
AfterUploadAbort(result) == IF result = "failed" THEN "done" ELSE "fetch"

\* line 223: the result of _upload_resume is not read
AfterUpload(result) == "fetch"

\* line 225: the wait for the autofill, after which the fill pass starts
AutofillWait ==
  /\ ex_pc = "uploaded"
  /\ ex_pc' = AfterUpload(ex_upload)
  /\ ex_attempts' = <<>>
  /\ UNCHANGED <<ex_failed,
                 ex_mode, ex_n, ex_i, ex_field, ex_after, ex_look, ex_outcome, ex_acts,
                 ex_upload, ex_raised>>
  /\ UNCHANGED NotExec

\* lines 228-229: the loop takes the next field, or ends (lines 274-275)
FetchField ==
  /\ ex_pc = "fetch"
  /\ IF ex_i < ex_n
     THEN /\ ex_i' = ex_i + 1
          /\ ex_field' \in IF ex_mode = "plan" THEN FieldsOfSchema
                           ELSE {f \in FieldsOfSchema : f.answer # Absent}
          /\ ex_pc' = "field"
     ELSE /\ ex_pc' = IF ex_mode = "plan" THEN "wait" ELSE "done"
          /\ UNCHANGED <<ex_i, ex_field>>
  /\ UNCHANGED <<ex_failed,
                 ex_mode, ex_n, ex_after, ex_look, ex_outcome, ex_acts, ex_upload,
                 ex_attempts, ex_raised>>
  /\ UNCHANGED NotExec

\* the iteration ends (a continue, or the end of the loop body) and its
\* locals are dropped
EndIteration ==
  /\ ex_pc = "iterated"
  /\ ex_pc' = "fetch"
  /\ ex_field' = NoField
  /\ ex_after' = NoLive
  /\ ex_look' = NoLook
  /\ ex_outcome' = "none"
  /\ ex_acts' = <<>>
  /\ ex_failed' = (ex_failed \/ ex_outcome \in {"name_error", "lookup_error"})
  /\ UNCHANGED <<ex_mode, ex_n, ex_i, ex_upload, ex_attempts,
                 ex_raised>>
  /\ UNCHANGED NotExec

\* mutant: line 268 prints f.type
FillingPrintWorks == FALSE

\* line 268 prints field.type, and execute_fill_plan has no name field: the
\* NameError is caught at line 270
FillingPrintRaises == TRUE

\* lines 241-264: the pre-population check; "error" when a lookup raises
Prepopulated(f, env) ==
  IF ~f.css \/ f.type \notin TextLike \cup {"checkbox", "radio"} THEN "no"
  ELSE IF env.css = "raise" THEN "error"
  ELSE IF ~IsHit(env.css) THEN "no"
  ELSE IF f.type \in TextLike
  THEN IF env.input_value = "ok" /\ Strip(f.value) # <<>> THEN "yes" ELSE "no"
  ELSE IF env.is_checked = "ok" /\ f.checked THEN "yes" ELSE "no"

\* lines 230-272: one iteration of the fill loop
IterationOutcome(f, env) ==
  IF f.answer = Absent \/ ~Truthy(f.answer) THEN "no_answer"
  ELSE IF f.type = "file" THEN "file"
  ELSE IF Prepopulated(f, env) = "error" THEN "lookup_error"
  ELSE IF Prepopulated(f, env) = "yes" THEN "prepopulated"
  ELSE IF f.type \in TextLike /\ FillingPrintRaises THEN "name_error"
  ELSE "fill_field"

\* the live element after the actions
AfterActs(f, acts) ==
  LET done == {i \in 1..Len(acts) : acts[i].ok}
      live == [value |-> f.value, checked |-> f.checked]
  IN IF done = {} THEN live
     ELSE LET a == acts[CHOOSE i \in done : \A j \in done : j <= i] IN
          IF a.op \in {"fill", "select"} THEN [live EXCEPT !.value = f.answer.v]
          ELSE IF a.op = "check" THEN [live EXCEPT !.checked = TRUE]
          ELSE IF f.type = "checkbox" THEN [live EXCEPT !.checked = ~f.checked]
          ELSE IF f.type = "radio" THEN [live EXCEPT !.checked = TRUE]
          ELSE live

\* mutant: the handler of line 270 misses the errors of the lookups
EscapesLookupError(out) == out = "lookup_error"

\* lines 240 and 270-272: except Exception around the body of the loop; no
\* outcome of an iteration leaves the function
Escapes(out) == FALSE

ProcessField ==
  /\ ex_pc = "field"
  /\ ex_mode = "plan"
  /\ \E env \in Envs(ex_field) :
       LET out == IterationOutcome(ex_field, env)
           acts == IF out = "fill_field"
                   THEN FillField(ex_field, StrOf(ex_field.answer), env) ELSE <<>>
       IN /\ ex_look' = Look(ex_field, env)
          /\ ex_outcome' = out
          /\ ex_acts' = acts
          /\ ex_after' = AfterActs(ex_field, acts)
          /\ ex_raised' = Escapes(out)
          /\ ex_pc' = IF Escapes(out) THEN "done" ELSE "iterated"
  /\ UNCHANGED <<ex_failed,
                 ex_mode, ex_n, ex_i, ex_field, ex_upload, ex_attempts>>
  /\ UNCHANGED NotExec

\* a call of _fill_field(page, field, value, opts) on its own
CallFillField ==
  /\ ex_pc = "field"
  /\ ex_mode = "call"
  /\ \E env \in Envs(ex_field) :
       LET acts == FillField(ex_field, StrOf(ex_field.answer), env) IN
       /\ ex_look' = Look(ex_field, env)
       /\ ex_outcome' = "fill_field"
       /\ ex_acts' = acts
       /\ ex_after' = AfterActs(ex_field, acts)
  /\ ex_pc' = "iterated"
  /\ UNCHANGED <<ex_failed,
                 ex_mode, ex_n, ex_i, ex_field, ex_upload, ex_attempts,
                 ex_raised>>
  /\ UNCHANGED NotExec

\* line 275: the hold for manual review
FinalWait ==
  /\ ex_pc = "wait"
  /\ ex_pc' = "done"
  /\ UNCHANGED <<ex_failed,
                 ex_mode, ex_n, ex_i, ex_field, ex_after, ex_look, ex_outcome, ex_acts,
                 ex_upload, ex_attempts,
                 ex_raised>>
  /\ UNCHANGED NotExec

NextExec ==
  Upload \/ AutofillWait \/ FetchField \/ ProcessField \/ CallFillField \/ EndIteration \/ FinalWait

ExecInit ==
  InitExec /\ IdleResolver /\ IdleBeta /\ IdleAnswer /\ IdleExtract /\ IdleService

SpecExec == ExecInit /\ [][NextExec]_vars

Filled == \E k \in 1..Len(ex_acts) : ex_acts[k].op = "fill"

IterationDone == ex_pc = "iterated"

\* C5: an iteration of execute_fill_plan on a text-like field whose live
\* element already holds a non-empty value never calls fill on it and leaves
\* the value as it was, whether or not the field has a CSS selector.
Thm_C5_NoFillOfPrepopulated ==
  (ex_mode = "plan" /\ IterationDone
     /\ ex_field.type \in TextLike /\ ex_field.value # <<>>)
    => (~Filled /\ ex_after.value = ex_field.value)

\* a text field without a CSS selector, found by its label, holding a value,
\* with another value answered for it, has gone through the loop
W_C5_NoSelectorPrepopulated ==
  /\ ex_mode = "plan" /\ IterationDone
  /\ ex_field.type \in TextLike /\ ~ex_field.css
  /\ ex_look.label = "hit"
  /\ ex_field.value = StrOld /\ ex_field.answer = PyStr(StrNew)
  /\ ~Filled

NothingMatches ==
  /\ ~IsHit(ex_look.css)
  /\ ~IsHit(ex_look.label)
  /\ ~IsHit(ex_look.placeholder)

\* C7: a call of _fill_field on a field whose CSS selector, label and
\* placeholder all find no element, or raise, returns without raising, takes
\* no fill, select, click or check action and leaves the element as it was,
\* whatever the type of the field.
Thm_C7_NoMatchNoAction ==
  (ex_mode = "call" /\ IterationDone /\ NothingMatches)
    => (/\ ~ex_raised
        /\ ex_acts = <<>>
        /\ ex_after = [value |-> ex_field.value, checked |-> ex_field.checked])

\* _fill_field has returned for a file field whose selector matched nothing
\* and whose label lookup raised
W_C7_FileFieldNoMatch ==
  /\ ex_mode = "call" /\ IterationDone /\ NothingMatches
  /\ ex_field.type = "file"
  /\ ex_look.css = "zero" /\ ex_look.label = "raise"

(***************************************************************************)
(* extract_form_schema_from_page and extract_form_schema_from_snapshot_dir *)
(*                                                                         *)
(* A document is the sequence of the nodes that the field query matches,   *)
(* in document order, and what the text heuristics find in the rest of it. *)
(***************************************************************************)
MaxNodes == 3
MaxFrames == 1

Node(tag, type, visible, personal) ==
  [tag |-> tag, type |-> type, role |-> "", visible |-> visible, personal |-> personal]

HiddenInput == Node("input", "hidden", FALSE, FALSE)
FileInput(visible) == Node("input", "file", visible, FALSE)
\* an input without a type attribute; personal: its name, label or
\* placeholder matches the personal-information patterns of lines 186-191
PlainInput(visible, personal) == Node("input", "", visible, personal)

NodeSet ==
  {HiddenInput, FileInput(TRUE), FileInput(FALSE),
   PlainInput(FALSE, FALSE), PlainInput(TRUE, FALSE), PlainInput(TRUE, TRUE)}

NodeSeqs == UNION {[1..n -> NodeSet] : n \in 0..MaxNodes}

Docs == [nodes : NodeSeqs, upload_text : BOOLEAN, submit_text : BOOLEAN]

\* _guess_field_type(input_type, tag, role)
GuessFieldType(input_type, tag, role) ==
  IF tag = "textarea" THEN "textarea"
  ELSE IF tag = "select" THEN "select"
  ELSE IF tag = "input"
  THEN LET t == IF input_type = "" THEN "text" ELSE input_type IN
       IF t \in {"text", "email", "tel", "number", "date", "file", "checkbox",
                 "radio", "password"}
       THEN t ELSE "text"
  ELSE IF role = "combobox" THEN "combobox"
  ELSE "custom"

\* mutant: a file input is treated like any other node
NeverFileInput(e) == FALSE

\* line 82
IsFileInput(e) == e.tag = "input" /\ e.type = "file"

\* lines 34-37: the query's nodes without the inputs of type hidden
Elements(doc) ==
  SelectSeq(doc.nodes, LAMBDA e : ~(e.tag = "input" /\ e.type = "hidden"))

FieldId(prefix, idx) == <<prefix, idx>>

\* lines 79-111: the fields of the elements from position k on; idx counts
\* from 0 over the elements
RECURSIVE FieldsFrom(_, _)
FieldsFrom(elements, k) ==
  IF k > Len(elements) THEN <<>>
  ELSE LET e == elements[k]
           field == [field_id |-> FieldId("field", k - 1),
                     type |-> GuessFieldType(e.type, e.tag, e.role),
                     visible |-> e.visible,
                     personal |-> e.personal,
                     hasDnd |-> FALSE,
                     synthetic |-> FALSE]
       IN IF ~e.visible /\ ~IsFileInput(e)
          THEN FieldsFrom(elements, k + 1)
          ELSE <<field>> \o FieldsFrom(elements, k + 1)

\* _extract_fields_from_page(page)
ExtractFieldsFromPage(doc) == FieldsFrom(Elements(doc), 1)

\* _detect_upload_signal(page)
DetectUploadSignal(doc) ==
  (\E k \in 1..Len(doc.nodes) : IsFileInput(doc.nodes[k])) \/ doc.upload_text

\* _detect_submit_application_signal(page)
DetectSubmitApplicationSignal(doc) == doc.submit_text

\* lines 155-166
SyntheticUpload ==
  [field_id |-> FieldId("upload", 0), type |-> "file", visible |-> TRUE,
   personal |-> FALSE, hasDnd |-> FALSE, synthetic |-> TRUE]

Indices(fields, P(_)) == {k \in 1..Len(fields) : P(fields[k])}
IsVisible(f) == f.visible
IsFileLike(f) == f.type = "file" \/ f.hasDnd
IsFileTyped(f) == f.type = "file"
IsPersonal(f) == f.visible /\ f.personal

VisibleCount(fields) == Cardinality(Indices(fields, IsVisible))
FileLikeVisible(fields) ==
  Cardinality(Indices(fields, LAMBDA f : IsVisible(f) /\ IsFileLike(f)))
CommonPersonal(fields) == Cardinality(Indices(fields, IsPersonal))
FileLikeAny(fields, upload_signal) ==
  \/ FileLikeVisible(fields) > 0
  \/ Indices(fields, IsFileTyped) # {}
  \/ upload_signal

\* mutant: the verdict does not ask for a file-like signal
IsValidWithoutFile(file_like_any, common_personal, submit_signal, visible) ==
  (common_personal >= 1 \/ submit_signal) /\ visible >= 3

\* lines 194 and 268
IsValid(file_like_any, common_personal, submit_signal, visible) ==
  file_like_any /\ (common_personal >= 1 \/ submit_signal) /\ visible >= 3

Min(a, b) == IF a <= b THEN a ELSE b

\* lines 195 and 269, in hundredths; file_term is 1 or 0 in the live
\* extractor and the number of visible file-like fields in the snapshot one
Conf(is_valid, file_term, common_personal, visible) ==
  IF is_valid
  THEN Min(100, 40 + 20 * file_term + 10 * common_personal + 2 * visible)
  ELSE 20

\* how the two detections of one try block end
DetectOutcomes == {"ok", "upload_raises", "submit_raises"}

InitExtract ==
  /\ x_mode \in {"live", "snapshot"}
  /\ x_pc = "start"
  /\ x_doc \in Docs
  /\ x_frames = <<>>
  /\ x_fields = <<>>
  /\ x_upload_signal = FALSE
  /\ x_submit_signal = FALSE
  /\ x_is_valid = FALSE
  /\ x_conf = 0
  /\ x_raised = FALSE
  /\ x_probe = "none"

\* the field query or the loading of the snapshot raises: nothing catches it
ExtractRaises ==
  /\ x_pc = "start"
  /\ x_pc' = "done"
  /\ x_raised' = TRUE
  /\ UNCHANGED <<x_mode, x_doc, x_frames, x_fields, x_upload_signal, x_submit_signal,
                 x_is_valid, x_conf, x_probe>>
  /\ UNCHANGED NotExtract

Verdict(fields, upload_signal, submit_signal, live) ==
  LET fla == FileLikeAny(fields, upload_signal)
      cp == CommonPersonal(fields)
      vis == VisibleCount(fields)
      valid == IsValid(fla, cp, submit_signal, vis)
      term == IF live THEN (IF fla THEN 1 ELSE 0) ELSE FileLikeVisible(fields)
  IN /\ x_fields' = fields
     /\ x_upload_signal' = upload_signal
     /\ x_submit_signal' = submit_signal
     /\ x_is_valid' = valid
     /\ x_conf' = Conf(valid, term, cp, vis)

\* mutant: the upload field is synthesized without looking for a file field
SynthesizesUnlessRaised(has_any_file, first, detected) ==
  first = "ok" /\ detected

\* lines 148-154: whether the synthetic upload field is added
Synthesizes(has_any_file, first, detected) ==
  ~has_any_file /\ first = "ok" /\ detected

\* extract_form_schema_from_page(page, url)
ExtractLive ==
  /\ x_pc = "start"
  /\ x_mode = "live"
  /\ \E first \in {"ok", "raise"}, second \in DetectOutcomes :
       LET extracted == ExtractFieldsFromPage(x_doc)
           has_any_file == Indices(extracted, IsFileTyped) # {}
           signal == Synthesizes(has_any_file, first, DetectUploadSignal(x_doc))
           fields == IF signal THEN Append(extracted, SyntheticUpload) ELSE extracted
       IN /\ Verdict(fields,
                     second = "ok" /\ DetectUploadSignal(x_doc),
                     second = "ok" /\ DetectSubmitApplicationSignal(x_doc),
                     TRUE)
          /\ x_probe' = IF has_any_file THEN "skipped" ELSE first
  /\ x_pc' = "done"
  /\ UNCHANGED <<x_mode, x_doc, x_frames, x_raised>>
  /\ UNCHANGED NotExtract

\* documents of frames: a frame with a visible file input, one with a
\* visible personal-information input, one with the upload and submit texts
FrameWithFile ==
  [nodes |-> <<FileInput(TRUE)>>, upload_text |-> FALSE, submit_text |-> FALSE]
FrameWithPersonal ==
  [nodes |-> <<PlainInput(TRUE, TRUE)>>, upload_text |-> FALSE, submit_text |-> FALSE]
FrameWithTexts == [nodes |-> <<>>, upload_text |-> TRUE, submit_text |-> TRUE]

\* the frame documents a manifest names and the loop loads (lines 224-235);
\* snapshot_page records the main frame as the first of them
FrameDocs(main) == {main, FrameWithFile, FrameWithPersonal, FrameWithTexts}

FrameLoads(main) ==
  UNION {[1..n -> [doc : FrameDocs(main), detect : DetectOutcomes]] : n \in 0..MaxFrames}

\* lines 214-221 and 236-243: the fields and signals of one more document
AddDocument(acc, doc, detect) ==
  [fields |-> acc.fields \o ExtractFieldsFromPage(doc),
   upload |-> acc.upload \/ (detect # "upload_raises" /\ DetectUploadSignal(doc)),
   submit |-> acc.submit \/ (detect = "ok" /\ DetectSubmitApplicationSignal(doc))]

RECURSIVE AddFrames(_, _, _)
AddFrames(acc, loads, k) ==
  IF k > Len(loads) THEN acc
  ELSE AddFrames(AddDocument(acc, loads[k].doc, loads[k].detect), loads, k + 1)

\* extract_form_schema_from_snapshot_dir(directory)
ExtractSnapshot ==
  /\ x_pc = "start"
  /\ x_mode = "snapshot"
  /\ \E detect \in DetectOutcomes, loads \in FrameLoads(x_doc) :
       LET main == AddDocument([fields |-> <<>>, upload |-> FALSE, submit |-> FALSE],
                               x_doc, detect)
           all == AddFrames(main, loads, 1)
       IN /\ Verdict(all.fields, all.upload, all.submit, FALSE)
          /\ x_frames' = [k \in 1..Len(loads) |-> loads[k].doc]
  /\ x_pc' = "done"
  /\ UNCHANGED <<x_mode, x_doc, x_raised, x_probe>>
  /\ UNCHANGED NotExtract

NextExtract == ExtractRaises \/ ExtractLive \/ ExtractSnapshot

ExtractInit ==
  InitExtract /\ IdleResolver /\ IdleBeta /\ IdleAnswer /\ IdleExec /\ IdleService

SpecExtract == ExtractInit /\ [][NextExtract]_vars

Extracted == x_pc = "done" /\ ~x_raised

\* the documents the extraction read
DocsRead == {x_doc} \cup {x_frames[k] : k \in 1..Len(x_frames)}

\* a file-like signal of the schema: a visible file or drag-and-drop field,
\* a field typed file, or the upload signal
FileLikeSignal ==
  \/ \E k \in 1..Len(x_fields) :
       x_fields[k].visible /\ (x_fields[k].type = "file" \/ x_fields[k].hasDnd)
  \/ \E k \in 1..Len(x_fields) : x_fields[k].type = "file"
  \/ x_upload_signal

PersonalOrSubmit ==
  \/ \E k \in 1..Len(x_fields) : x_fields[k].visible /\ x_fields[k].personal
  \/ x_submit_signal

ThreeVisible ==
  Cardinality({k \in 1..Len(x_fields) : x_fields[k].visible}) >= 3

\* C6: in both extractors is_valid_job_application_form is true exactly when
\* the schema has a file-like signal, has a visible personal-information
\* field or the submit signal, and has at least three visible fields; and a
\* page with no file input and no upload text in any document read is never
\* valid, whatever its other signals.
Thm_C6_ValidityFormula ==
  Extracted =>
    /\ x_is_valid <=> (FileLikeSignal /\ PersonalOrSubmit /\ ThreeVisible)
    /\ (\A d \in DocsRead : ~DetectUploadSignal(d)) => ~x_is_valid

\* a live page with three visible fields, one of them personal, and no
\* file-like signal has been judged invalid
W_C6_NoFileSignalInvalid ==
  /\ Extracted /\ x_mode = "live"
  /\ PersonalOrSubmit /\ ThreeVisible
  /\ ~FileLikeSignal
  /\ ~x_is_valid

(***************************************************************************)
(* Parsing of fenced responses.                                            *)
(***************************************************************************)
\* C11: a Stage 1 response that is a JSON object inside a ```json fence is
\* parsed to the object itself, as the bare object would be: the trace
\* holds it and Stage 1 has not failed.
CX_C11_FencedParsesLikeBare ==
  (entry = "agentic5" /\ s1content.kind = "text" /\ s1content.fence = "json"
   /\ IsDict(s1content.body))
    => (trace_stage1 = s1content.body /\ branch # "stage1_failed")

(***************************************************************************)
(* generate_answers: responses without an answers object, and the frame.   *)
(***************************************************************************)
\* the response is no JSON text for json.loads, or a JSON value that holds
\* no object under "answers"
NoAnswersObject(c) ==
  IF c.kind = "none" THEN TRUE
  ELSE \/ c.fence # "no"
       \/ ~IsDict(c.body)
       \/ ~IsDict(Get(c.body, "answers", None))

\* C12: after a response that is malformed, is not JSON, or holds no
\* object under "answers", generate_answers has returned and no field of
\* the schema has an answer.
Thm_C12_NoAnswersNoStamp ==
  (ans_pc = "done" /\ NoAnswersObject(ans_content)) =>
    /\ answers = EmptyObj
    /\ \A i \in 1..Len(schema.fields) : schema.fields[i].answer = Absent

\* generate_answers has returned after a fenced response that names a field
\* of the schema, and after none has that field an answer
W_C12_FencedResponse ==
  /\ ans_pc = "done"
  /\ ans_content = Fenced(PyObj([answers |-> PyObj([field_0 |-> PyStr(StrTrue)])]))
  /\ schema.fields[1].field_id = "field_0"
  /\ schema.fields[1].answer = Absent

\* C13: generate_answers changes nothing in the schema but the answers of
\* the fields the LLM named: the url, the ats, the type, id and options of
\* every field and the Validity with its meta bag are as they were given,
\* and a field the LLM did not name has no answer.
CX_C13_OnlyAnswersChange ==
  ans_pc = "done" =>
    /\ schema.url = PyUrl(UrlX)
    /\ schema.ats = None
    /\ \A i \in 1..Len(schema.fields) :
         /\ schema.fields[i].field_id = FieldIds[i]
         /\ schema.fields[i].type \in AnswerTypes
         /\ i \notin Answered => schema.fields[i].answer = Absent
    /\ schema.validity =
         [is_valid |-> TRUE, confidence |-> 80, meta |-> [llm_answered_fields |-> Absent]]

(***************************************************************************)
(* Extractors: field ids.                                                  *)
(***************************************************************************)
\* C14: no two fields of an extracted schema share a field_id, in the live
\* extractor and in the snapshot extractor over the main document and the
\* frame documents of the manifest.
CX_C14_UniqueFieldIds ==
  Extracted =>
    \A i, j \in 1..Len(x_fields) :
      i # j => x_fields[i].field_id # x_fields[j].field_id

(***************************************************************************)
(* execute_fill_plan: order of the upload and of the fill pass.            *)
(***************************************************************************)
\* C15: while the resume upload runs and while its attempts are on record
\* no field has been handled; once a field is handled the upload is over;
\* and the function ends only after the fill pass went over every field,
\* also when the upload failed or there was no resume.
Thm_C15_UploadFirstBestEffort ==
  ex_mode = "plan" =>
    /\ (ex_pc \in {"upload", "uploaded"} \/ ex_attempts # <<>>)
         => (ex_i = 0 /\ ex_acts = <<>>)
    /\ ex_i > 0 => ex_upload # "none"
    /\ ex_pc \in {"wait", "done"} => ex_i = ex_n

\* every upload attempt failed and the fill pass has acted on a field
W_C15_FailedUploadThenFill ==
  /\ ex_mode = "plan"
  /\ ex_upload = "failed"
  /\ ex_pc = "iterated"
  /\ \E k \in 1..Len(ex_acts) : ex_acts[k].ok

\* C16: a text-like field with a non-empty answer whose live element is
\* found by the selector and holds an empty value is filled with the answer
\* by execute_fill_plan.
CX_C16_EmptyTextFieldFilled ==
  (ex_mode = "plan" /\ IterationDone
     /\ ex_field.type \in TextLike
     /\ ex_field.answer # Absent /\ Truthy(ex_field.answer)
     /\ ex_field.value = <<>>
     /\ ex_look.css = "hit")
    => (Filled /\ ex_after.value = ex_field.answer.v)

(***************************************************************************)
(* execute_fill_plan: the fill pass goes over every field.                 *)
(***************************************************************************)
\* an iteration that ended in an exception
IterationFailed == ex_outcome \in {"name_error", "lookup_error"}

\* how far the function is from its return: three steps for every field
\* left, and the steps left at its position
StepsLeft ==
  3 * (ex_n - ex_i)
  + CASE ex_pc = "upload" -> 7
      [] ex_pc = "uploaded" -> 6
      [] ex_pc = "field" -> 5
      [] ex_pc = "iterated" -> 4
      [] ex_pc = "fetch" -> 3
      [] ex_pc = "wait" -> 2
      [] OTHER -> 1

\* C17: the fields are taken one by one in schema order; a field with a
\* non-empty answer that is not a file field is handled (checked for a
\* value and, unless skipped, passed on), and after an iteration that ended
\* in an exception the loop goes on; no exception leaves the function; and
\* the function reaches the final wait having gone over every field: every
\* step brings it closer to its return and it can take a step until then.
Thm_C17_EveryFieldThenWait ==
  /\ [][/\ ex_i' = ex_i \/ (ex_i' = ex_i + 1 /\ ex_pc = "fetch" /\ ex_i < ex_n)
        /\ StepsLeft' < StepsLeft
        /\ (IterationDone /\ IterationFailed) => ex_pc' = "fetch"]_vars
  /\ [](ex_mode = "plan" =>
          /\ ~ex_raised
          /\ ex_pc # "done" => ENABLED NextExec
          /\ ex_pc \in {"wait", "done"} => ex_i = ex_n
          /\ (IterationDone /\ ex_field.answer # Absent /\ Truthy(ex_field.answer)
              /\ ex_field.type # "file")
               => ex_outcome \in {"prepopulated", "name_error", "lookup_error",
                                  "fill_field"})

\* after an iteration that ended in an exception, a later field has been
\* passed to _fill_field, which acted on it
W_C17_ActsAfterFailure ==
  /\ ex_mode = "plan" /\ IterationDone /\ ex_failed
  /\ ex_outcome = "fill_field"
  /\ \E k \in 1..Len(ex_acts) : ex_acts[k].ok

\* C18: execute_fill_plan takes no fill, select, click or check action on a
\* field, whatever its type, whose live element already holds a non-empty
\* value or is checked.
CX_C18_NoActionOnPrepopulated ==
  (ex_mode = "plan" /\ IterationDone /\ ex_field.type # "file"
     /\ (ex_field.value # <<>> \/ ex_field.checked))
    => ex_acts = <<>>

(***************************************************************************)
(* _fill_field: the checkbox chain.                                        *)
(***************************************************************************)
\* C19: _fill_field on a checkbox with a truthy answer whose selector, label
\* and placeholder find no element goes on to the later strategies: when a
\* role=checkbox element with the accessible name exists, it is clicked.
CX_C19_ChainWithoutPrimary ==
  (ex_mode = "call" /\ IterationDone /\ ex_field.type = "checkbox"
     /\ LowerStr(ex_field.answer.v) \in TruthyWords
     /\ NothingMatches /\ ex_look.role = "hit")
    => \E k \in 1..Len(ex_acts) : ex_acts[k] = Act("click", "role", TRUE)

(***************************************************************************)
(* Stage 2: the order of the fallbacks.                                    *)
(***************************************************************************)
\* C20: whenever the careers step of Stage 2 produced no result and the
\* link analysis named an about link, the first about link is visited
\* before Stage 2 ends.
CX_C20_AboutAfterCareersWithoutResult ==
  (entry = "agentic5" /\ pc \in {"dispatch", "done"}
     /\ Truthy(Get(analysis, "careers_links", None))
     /\ Truthy(Get(analysis, "about_links", None))
     /\ ~(IsDict(stage2_result) /\ "careers_url" \in DOMAIN stage2_result.v))
    => \E k \in 1..Len(log) : log[k] = Goto(Get(analysis, "about_links", None).v[1])

(***************************************************************************)
(* Stage 3, job_listings branch: what the verification lets through.       *)
(***************************************************************************)
\* the verification response parses to an object whose "matches" is truthy
VerifiedMatch(vc) ==
  LET vp == CleanLoads(vc) IN
  vp.ok /\ IsDict(vp.val) /\ Truthy(Get(vp.val, "matches", PyBool(FALSE)))

\* C21: in the job_listings branch, once the first matching job link is
\* being visited, Stage 3 returns a URL only for a verification response
\* that says the posting matches; every other response (no match, no
\* parsable JSON) gives None.
CX_C21_UrlOnlyIfVerified ==
  (entry = "agentic5" /\ pc = "s3_verify") =>
    \A vc \in VerifyContents, clickOk \in BOOLEAN, after \in {PyUrl(UrlAX), PyUrl(UrlY)} :
      Stage3Listing(cur, TRUE, vc, clickOk, after).val # None => VerifiedMatch(vc)

(***************************************************************************)
(* Stage 3: every call returns.                                            *)
(***************************************************************************)
InStage3 == entry = "agentic5" /\ pc \in {"stage3", "s3_verify"}

\* steps Stage 3 can still take: two per activation the stack has room for
Stage3StepsLeft ==
  IF pc = "stage3" THEN 2 * (MaxDepth - depth) + 2
  ELSE IF pc = "s3_verify" THEN 1
  ELSE 0

CX_C23_ConfidenceFormula ==
  Extracted =>
    /\ x_conf \in 0..100
    /\ x_conf = IF x_is_valid
                THEN Min(100, 40 + 20 * (IF FileLikeSignal THEN 1 ELSE 0)
                              + 10 * CommonPersonal(x_fields)
                              + 2 * VisibleCount(x_fields))
                ELSE 20

(***************************************************************************)
(* The snapshot extractor against the live extractor.                      *)
(***************************************************************************)
\* what extract_form_schema_from_page makes of a document when no detection
\* raises
LiveOf(doc) ==
  LET extracted == ExtractFieldsFromPage(doc)
      signal == Indices(extracted, IsFileTyped) = {} /\ DetectUploadSignal(doc)
      fields == IF signal THEN Append(extracted, SyntheticUpload) ELSE extracted
      fla == FileLikeAny(fields, DetectUploadSignal(doc))
      cp == CommonPersonal(fields)
      vis == VisibleCount(fields)
      valid == IsValid(fla, cp, DetectSubmitApplicationSignal(doc), vis)
  IN [fields |-> fields, valid |-> valid,
      conf |-> Conf(valid, IF fla THEN 1 ELSE 0, cp, vis)]

\* C24: for a single main document and no frame documents the snapshot
\* extractor gives the field list (ids, types, synthesized upload field),
\* the verdict and the confidence that the live extractor gives for the
\* same document.
CX_C24_SnapshotLikeLive ==
  (Extracted /\ x_mode = "snapshot" /\ x_frames = <<>>) =>
    /\ x_fields = LiveOf(x_doc).fields
    /\ x_is_valid = LiveOf(x_doc).valid
    /\ x_conf = LiveOf(x_doc).conf

(***************************************************************************)
(* Field ids, kept and dropped nodes, the synthetic upload field.          *)
(***************************************************************************)
\* C25: the n fields that one pass over a document keeps carry the ids
\* field_0 .. field_(n-1) in document order, also when enumerated nodes are
\* dropped.
CX_C25_ConsecutiveFieldIds ==
  (Extracted /\ x_mode = "live") =>
    \A k \in 1..Len(x_fields) :
      ~x_fields[k].synthetic => x_fields[k].field_id = FieldId("field", k - 1)

\* the nodes of a document that the extraction is to keep
KeptNodes(doc) ==
  {k \in 1..Len(doc.nodes) :
     LET e == doc.nodes[k] IN
     \/ e.tag = "input" /\ e.type = "file"
     \/ e.visible /\ ~(e.tag = "input" /\ e.type = "hidden")}

FileNodes(doc) ==
  {k \in 1..Len(doc.nodes) : doc.nodes[k].tag = "input" /\ doc.nodes[k].type = "file"}

\* C26: the extraction keeps exactly the file inputs, whatever their
\* visibility, and the visible nodes that are no inputs of type hidden: no
\* kept field of another type is invisible, and every file input of the
\* document is a field of the schema.
Thm_C26_KeptAndDropped ==
  Extracted =>
    /\ \A k \in 1..Len(x_fields) : x_fields[k].type # "file" => x_fields[k].visible
    /\ x_mode = "live" =>
         /\ Cardinality(Indices(x_fields, LAMBDA f : ~f.synthetic))
              = Cardinality(KeptNodes(x_doc))
         /\ Cardinality(Indices(x_fields, LAMBDA f : ~f.synthetic /\ f.type = "file"))
              = Cardinality(FileNodes(x_doc))

\* a page with an input of type hidden, an invisible text input and an
\* invisible file input has been extracted: only the file input is kept
W_C26_HiddenFileKept ==
  /\ Extracted /\ x_mode = "live"
  /\ \E i, j, k \in 1..Len(x_doc.nodes) :
       /\ x_doc.nodes[i] = HiddenInput
       /\ x_doc.nodes[j] = PlainInput(FALSE, FALSE)
       /\ x_doc.nodes[k] = FileInput(FALSE)
  /\ Len(x_fields) = 1 /\ x_fields[1].type = "file" /\ ~x_fields[1].visible

Synthetics == Indices(x_fields, LAMBDA f : f.field_id = FieldId("upload", 0))
FileTypedExtracted == Indices(x_fields, LAMBDA f : f.type = "file" /\ ~f.synthetic) # {}

\* C27: the live extractor adds one synthetic file field upload_0 when it
\* extracted no file-typed field and the upload signal holds; it adds none
\* when a file-typed field was extracted, when the signal is absent and
\* when evaluating the signal raises. No schema holds more than one
\* upload_0, and the snapshot extractor adds none.
Thm_C27_OneSyntheticUpload ==
  Extracted =>
    /\ Cardinality(Synthetics) <= 1
    /\ \A k \in Synthetics : x_fields[k] = SyntheticUpload /\ k = Len(x_fields)
    /\ x_mode = "live" =>
         (Cardinality(Synthetics) = 1
            <=> (~FileTypedExtracted /\ x_probe = "ok" /\ DetectUploadSignal(x_doc)))
    /\ x_mode = "live" => (x_probe = "skipped" <=> FileTypedExtracted)
    /\ x_mode = "snapshot" => Synthetics = {}

\* a page without file input whose text names an upload got the synthetic
\* field after its visible fields
W_C27_SyntheticAdded ==
  /\ Extracted /\ x_mode = "live" /\ x_doc.upload_text
  /\ Len(x_fields) >= 2 /\ x_fields[Len(x_fields)] = SyntheticUpload
  /\ x_probe = "ok"

(***************************************************************************)
(* Radio fields answered "false".                                          *)
(***************************************************************************)
\* C28: for a radio field whose answer is the normalized string "false"
\* execute_fill_plan clicks no element.
CX_C28_NoClickOnFalseRadio ==
  (ex_mode = "plan" /\ IterationDone /\ ex_field.type = "radio"
     /\ ex_field.answer = PyStr(StrFalse))
    => \A k \in 1..Len(ex_acts) : ex_acts[k].op # "click"

(***************************************************************************)
(* PlaywrightService: start_run, stop_run and the close callbacks.         *)
(*                                                                         *)
(* The service runs on one event loop: a coroutine runs from one await to  *)
(* the next without interruption, and the callbacks of "close" events run  *)
(* while it is suspended.                                                  *)
(***************************************************************************)
CloseEvent(r, what) == <<r, what>>

\* start_run(run_id, initial_url): context and page are created, the two
\* close callbacks are registered and the run is stored in active_runs
StartRun(r) ==
  /\ r \notin active_runs
  /\ sv_open[r] = {}
  /\ sv_db[r] = "none"
  /\ ~(sv_pc \notin {"idle", "done"} /\ sv_run = r)
  /\ sv_open' = [sv_open EXCEPT ![r] = {"page", "context"}]
  /\ active_runs' = active_runs \cup {r}
  /\ UNCHANGED <<sv_events, sv_db, sv_pc, sv_run, sv_result>>
  /\ UNCHANGED NotService

\* the user closes the window of a run: its page emits "close"
UserClosesPage(r) ==
  /\ "page" \in sv_open[r]
  /\ sv_open' = [sv_open EXCEPT ![r] = @ \ {"page"}]
  /\ sv_events' = sv_events \cup {CloseEvent(r, "page")}
  /\ UNCHANGED <<active_runs, sv_db, sv_pc, sv_run, sv_result>>
  /\ UNCHANGED NotService

\* on_page_close and on_context_close: _handle_browser_close(run_id, reason)
HandleBrowserClose(ev) ==
  /\ ev \in sv_events
  /\ sv_events' = sv_events \ {ev}
  /\ sv_db' = [sv_db EXCEPT ![ev[1]] = "TERMINATED"]
  /\ active_runs' = active_runs \ {ev[1]}
  /\ UNCHANGED <<sv_open, sv_pc, sv_run, sv_result>>
  /\ UNCHANGED NotService

\* stop_run(run_id), lines 206-215 and 226-231: the membership test and the
\* call of page.close()
StopRun(r) ==
  /\ sv_pc \in {"idle", "done"}
  /\ sv_run' = r
  /\ IF r \in active_runs
     THEN /\ sv_pc' = "closing_page"
          /\ sv_result' = "none"
          /\ sv_open' = [sv_open EXCEPT ![r] = @ \ {"page"}]
          /\ sv_events' = IF "page" \in sv_open[r]
                          THEN sv_events \cup {CloseEvent(r, "page")}
                          ELSE sv_events
     ELSE /\ sv_pc' = "done"
          /\ sv_result' = "FAILED"
          /\ UNCHANGED <<sv_open, sv_events>>
  /\ UNCHANGED <<active_runs, sv_db>>
  /\ UNCHANGED NotService

\* lines 216-217: page.close() has returned, context.close() is called
StopCloseContext ==
  /\ sv_pc = "closing_page"
  /\ sv_pc' = "closing_context"
  /\ sv_open' = [sv_open EXCEPT ![sv_run] = {}]
  /\ sv_events' = IF "context" \in sv_open[sv_run]
                  THEN sv_events \cup {CloseEvent(sv_run, "context")}
                  ELSE sv_events
  /\ UNCHANGED <<active_runs, sv_db, sv_run, sv_result>>
  /\ UNCHANGED NotService

\* line 220: del self.active_runs[run_id]
Delete(r, runs) == [ok |-> r \in runs, runs |-> runs \ {r}]

\* lines 220-223 and 236-238: context.close() has returned; the run is
\* deleted, or the KeyError of the del leaves stop_run through its except
\* clause
StopDelete ==
  /\ sv_pc = "closing_context"
  /\ LET d == Delete(sv_run, active_runs) IN
     /\ active_runs' = d.runs
     /\ sv_pc' = IF d.ok THEN "logging" ELSE "done"
     /\ sv_result' = IF d.ok THEN sv_result ELSE "KeyError"
  /\ UNCHANGED <<sv_open, sv_events, sv_db, sv_run>>
  /\ UNCHANGED NotService

\* lines 222-229: _log_event has returned
StopReturn ==
  /\ sv_pc = "logging"
  /\ sv_pc' = "done"
  /\ sv_result' = "CANCELLED"
  /\ UNCHANGED <<active_runs, sv_open, sv_events, sv_db, sv_run>>
  /\ UNCHANGED NotService

NextService ==
  \/ \E r \in Runs : StartRun(r)
  \/ \E r \in Runs : UserClosesPage(r)
  \/ \E ev \in sv_events : HandleBrowserClose(ev)
  \/ \E r \in Runs : StopRun(r)
  \/ StopCloseContext
  \/ StopDelete
  \/ StopReturn

ServiceInit ==
  IdleService /\ IdleResolver /\ IdleBeta /\ IdleAnswer /\ IdleExec /\ IdleExtract

SpecService == ServiceInit /\ [][NextService]_vars

CX_C30_CareersFallback ==
  LET a == Get(beta_picks, "apply_url", None)
      c == Get(beta_picks, "careers_url", None)
  IN (beta_pc = "done" /\ ViolatesDna(a, beta_disallowed)
        /\ Truthy(c) /\ ~ViolatesDna(c, beta_disallowed))
       => beta_best = c

=============================================================================
